---- MODULE Spec2Model ----
(***************************************************************************)
(* CollabMate backend: the task controller (create / update / assign /     *)
(* status change / delete with cascade into the user store), the filter    *)
(* engine filterTasks, and the dashboard controller built on top of it.    *)
(*                                                                         *)
(* The JSON files behind loadTasks/saveTasks, loadUsers/saveUsers and      *)
(* loadTeams are the variables tasks, users and teams.  Every request      *)
(* handler is one action; the response it sends is recorded in res.        *)
(***************************************************************************)
EXTENDS Integers, Sequences, FiniteSets, TLC

VARIABLES
    tasks,   \* the task store (loadTasks / saveTasks)
    users,   \* the user store (loadUsers / saveUsers)
    teams,   \* the team store (loadTeams)
    now,     \* the clock read by new Date()
    req,     \* req.query of the read request being served
    res,     \* the response sent by the last handler
    calls    \* number of write requests handled so far

vars == <<tasks, users, teams, now, req, res, calls>>

----------------------------------------------------------------------------
(* Bounds of the model *)

\* largest number of tasks in the task store (mutation specification)
MaxTasks == 2
\* largest length of the task list handed to the filter engine
MaxListLen == 2
\* the clock (new Date()) runs from 0 to MaxClock
MaxClock == 1
\* largest number of write requests in a behaviour
MaxCalls == 4

----------------------------------------------------------------------------
(* JavaScript values *)

\* the value of a field or parameter that is absent
Undefined == "undefined"
\* JSON null
Null == "null"
\* userIds: null, for which Array.isArray is false (written as a tuple no
\* list of user ids equals, so that it compares with the arrays)
NotArray == <<"#null">>

\* JavaScript truthiness of a string-or-absent value: if (v) ...
Truthy(v) == v \notin {Undefined, Null, ""}

\* Array.isArray(v)
IsArray(v) == v # NotArray

\* the query parameter union: the boolean true, the string "true", others
UnionBool == "true:boolean"
UnionStr == "true"

Range(s) == {s[i] : i \in 1..Len(s)}

\* Array.prototype.findIndex / find: the first of the matching positions,
\* 0 if there is none
FirstOf(positions) ==
    IF positions = {} THEN 0
    ELSE CHOOSE i \in positions : \A j \in positions : i <= j

\* number of occurrences of x in the sequence s
Count(s, x) == Cardinality({i \in 1..Len(s) : s[i] = x})

----------------------------------------------------------------------------
(* Input domains *)

UserIds == {"u1", "u2"}
TeamIds == {"z1"}
\* a team id no team has
NoTeam == "z9"
TaskIds == {"t1", "t2", "t3"}
EnumStatuses == {"To Do", "In Progress", "Done"}

\* statuses a task is given in the model: two of the enumeration, and one
\* value outside it (no handler validates the status)
Statuses == {"To Do", "Done", "Blocked"}

\* the array values of userIds handed to the handlers
UserIdLists == {<<>>, <<"u1">>, <<"u2">>, <<"u2", "u1">>}

\* the task record createTask builds
Task(id, title, status, userIds, creator, at) ==
    [taskId |-> id, title |-> title, description |-> Undefined,
     status |-> status, deadline |-> Undefined, userIds |-> userIds,
     gitlabIssueId |-> Null, createdAt |-> at, updatedAt |-> at,
     creator |-> creator]

----------------------------------------------------------------------------
(* Filter engine: filterTasks(tasks, teams, {status, teamId, userId, union}) *)
(* A result is [err, idx]: the message of the Error thrown (Null if none)  *)
(* and the positions in tasks of the returned task objects, in order.      *)

\* teams.find((t) => t.teamId === teamId): position of the team, 0 if none
FindTeam(tms, teamId) ==
    FirstOf({k \in 1..Len(tms) : tms[k].teamId = teamId})

\* new Set(team.members)
MemberSet(tms, teamId) == tms[FindTeam(tms, teamId)].members

\* t.userIds.some((uid) => memberSet.has(uid)), behind Array.isArray
SomeMember(t, memberSet) ==
    IsArray(t.userIds) /\ \E k \in 1..Len(t.userIds) : t.userIds[k] \in memberSet

\* t.userIds.includes(userId), behind Array.isArray
Includes(t, userId) ==
    IsArray(t.userIds) /\ \E k \in 1..Len(t.userIds) : t.userIds[k] = userId

\* union mode, the teamId predicate
UnionTeamMatch(t, memberSet) ==
    SomeMember(t, memberSet) \/ (Truthy(t.creator) /\ t.creator \in memberSet)

\* (mutant) union mode looking at the creator only
MutUnionUserMatch(t, userId) == t.creator = userId

\* union mode, the userId predicate
UnionUserMatch(t, userId) == Includes(t, userId) \/ t.creator = userId

\* intersection mode, the teamId predicate
InterTeamMatch(t, memberSet) == SomeMember(t, memberSet)

\* (mutant) the userId predicate of union mode used in intersection mode
MutInterUserMatch(t, userId) == Includes(t, userId) \/ t.creator = userId

\* intersection mode, the userId predicate
InterUserMatch(t, userId) == Includes(t, userId)

\* (mutant) an array instead of a Set: push without looking
MutAddAll(resultSet, idx) == resultSet \o idx

\* forEach((t) => resultSet.add(t)): a Set keeps insertion order and adds an
\* object only once
RECURSIVE AddAll(_, _)
AddAll(resultSet, idx) ==
    IF idx = <<>> THEN resultSet
    ELSE AddAll(IF Head(idx) \in Range(resultSet) THEN resultSet
                ELSE Append(resultSet, Head(idx)),
                Tail(idx))

AllIdx(ts) == [i \in 1..Len(ts) |-> i]

TeamNotFound == [err |-> "Team not found", idx |-> <<>>]

\* the branch union === true || union === "true"
unionFilter(ts, tms, q) ==
    LET byStatus == IF Truthy(q.status)
                    THEN AddAll(<<>>, SelectSeq(AllIdx(ts),
                                  LAMBDA i : ts[i].status = q.status))
                    ELSE <<>>
    IN  IF Truthy(q.teamId) /\ FindTeam(tms, q.teamId) = 0 THEN TeamNotFound
        ELSE
        LET byTeam == IF Truthy(q.teamId)
                      THEN AddAll(byStatus, SelectSeq(AllIdx(ts),
                             LAMBDA i : UnionTeamMatch(ts[i], MemberSet(tms, q.teamId))))
                      ELSE byStatus
            byUser == IF Truthy(q.userId)
                      THEN AddAll(byTeam, SelectSeq(AllIdx(ts),
                             LAMBDA i : UnionUserMatch(ts[i], q.userId)))
                      ELSE byTeam
        IN  [err |-> Null, idx |-> byUser]

\* (mutant) intersection mode returning early once the status filter has
\* left nothing, before the team is looked up
MutIntersectFilter(ts, tms, q) ==
    LET byStatus == IF Truthy(q.status)
                    THEN SelectSeq(AllIdx(ts), LAMBDA i : ts[i].status = q.status)
                    ELSE AllIdx(ts)
    IN  IF byStatus = <<>> THEN [err |-> Null, idx |-> <<>>]
        ELSE IF Truthy(q.teamId) /\ FindTeam(tms, q.teamId) = 0 THEN TeamNotFound
        ELSE
        LET byTeam == IF Truthy(q.teamId)
                      THEN SelectSeq(byStatus,
                             LAMBDA i : InterTeamMatch(ts[i], MemberSet(tms, q.teamId)))
                      ELSE byStatus
            byUser == IF Truthy(q.userId)
                      THEN SelectSeq(byTeam, LAMBDA i : InterUserMatch(ts[i], q.userId))
                      ELSE byTeam
        IN  [err |-> Null, idx |-> byUser]

\* the else branch: default intersection (AND) mode
intersectFilter(ts, tms, q) ==
    LET byStatus == IF Truthy(q.status)
                    THEN SelectSeq(AllIdx(ts), LAMBDA i : ts[i].status = q.status)
                    ELSE AllIdx(ts)
    IN  IF Truthy(q.teamId) /\ FindTeam(tms, q.teamId) = 0 THEN TeamNotFound
        ELSE
        LET byTeam == IF Truthy(q.teamId)
                      THEN SelectSeq(byStatus,
                             LAMBDA i : InterTeamMatch(ts[i], MemberSet(tms, q.teamId)))
                      ELSE byStatus
            byUser == IF Truthy(q.userId)
                      THEN SelectSeq(byTeam, LAMBDA i : InterUserMatch(ts[i], q.userId))
                      ELSE byTeam
        IN  [err |-> Null, idx |-> byUser]

\* union === true || union === "true"
IsUnion(union) == union = UnionBool \/ union = UnionStr

filterTasks(ts, tms, q) ==
    IF ~Truthy(q.status) /\ ~Truthy(q.teamId) /\ ~Truthy(q.userId)
    THEN [err |-> Null, idx |-> AllIdx(ts)]
    ELSE IF IsUnion(q.union) THEN unionFilter(ts, tms, q)
         ELSE intersectFilter(ts, tms, q)

\* the task objects at the positions idx
Pick(ts, idx) == [k \in 1..Len(idx) |-> ts[idx[k]]]

----------------------------------------------------------------------------
(* Read handlers: getTasks, getCalendarData, getTaskSummary *)

\* req.query of the read endpoints
StatusParams == {Undefined, "Done"}
TeamParams == {Undefined, NoTeam} \cup TeamIds
UserParams == {Undefined, "u1"}
UnionParams == {Undefined, UnionStr, UnionBool}
\* req.query.by of getGroupedTasks
ByParams == {"status", "team", "foo"}

\* a request carries filter parameters or a grouping method
Queries ==
    [status : StatusParams, teamId : TeamParams, userId : UserParams,
     union : UnionParams, by : {Undefined}]
    \cup [status : {Undefined}, teamId : {Undefined}, userId : {Undefined},
          union : {Undefined}, by : ByParams]

\* what a handler answered: res.status(code).json(body), and which stores
\* it saved
Response(op, args, code, body, saved) ==
    [op |-> op, args |-> args, code |-> code, body |-> body, saved |-> saved]

\* no request handled yet
NoResponse == Response("none", [a |-> Undefined], 0, [b |-> Undefined], {})

NotFoundTeam == [error |-> "Team not found"]

getTasks(q) ==
    LET r == filterTasks(tasks, teams, q)
        mode == IF q.union = UnionStr \/ q.union = UnionBool
                THEN "union" ELSE "intersection"
    IN  /\ res' = IF r.err = "Team not found"
                  THEN Response("getTasks", q, 404, NotFoundTeam, {})
                  ELSE Response("getTasks", q, 200,
                                [mode |-> mode, tasks |-> Pick(tasks, r.idx)], {})
        /\ UNCHANGED <<tasks, users, teams, now, req, calls>>

\* filteredTasks.map((task) => ({taskId, title, deadline, status}))
CalendarEntry(t) ==
    [taskId |-> t.taskId, title |-> t.title, deadline |-> t.deadline,
     status |-> t.status]

\* (mutant) the whole of req.query handed to filterTasks
MutDashboardQuery(q) == q

\* the handler reads userId, teamId and union from req.query
DashboardQuery(q) ==
    [status |-> Undefined, teamId |-> q.teamId, userId |-> q.userId,
     union |-> q.union]

getCalendarData(q) ==
    LET r == filterTasks(tasks, teams, DashboardQuery(q))
        filteredTasks == Pick(tasks, r.idx)
    IN  /\ res' = IF r.err = "Team not found"
                  THEN Response("getCalendarData", q, 404, NotFoundTeam, {})
                  ELSE Response("getCalendarData", q, 200,
                                [calendar |->
                                    [k \in 1..Len(filteredTasks) |->
                                        CalendarEntry(filteredTasks[k])]], {})
        /\ UNCHANGED <<tasks, users, teams, now, req, calls>>

\* total, completed and remaining of a task list
Summary(filteredTasks) ==
    LET total == Len(filteredTasks)
        completed == Cardinality({k \in 1..Len(filteredTasks) :
                                    filteredTasks[k].status = "Done"})
    IN  [total |-> total, completed |-> completed,
         remaining |-> total - completed]

getTaskSummary(q) ==
    LET r == filterTasks(tasks, teams, DashboardQuery(q))
    IN  /\ res' = IF r.err = "Team not found"
                  THEN Response("getTaskSummary", q, 404, NotFoundTeam, {})
                  ELSE Response("getTaskSummary", q, 200,
                                Summary(Pick(tasks, r.idx)), {})
        /\ UNCHANGED <<tasks, users, teams, now, req, calls>>

\* (mutant) the status itself as the key, without the default
MutGroupKey(task) == task.status

\* const key = task.status || "Unknown"
GroupKey(task) == IF Truthy(task.status) THEN task.status ELSE "Unknown"

\* by === "status": groups[key] holds, in store order, the tasks with that key
GroupsByStatus(ts) ==
    [key \in {GroupKey(ts[i]) : i \in 1..Len(ts)} |->
        SelectSeq(ts, LAMBDA t : GroupKey(t) = key)]

\* by === "team": groups[team.teamId] holds the tasks with an assigned member
GroupsByTeam(ts, tms) ==
    [teamId \in {tms[k].teamId : k \in 1..Len(tms)} |->
        SelectSeq(ts, LAMBDA t : SomeMember(t, MemberSet(tms, teamId)))]

InvalidGrouping == [error |-> "Invalid grouping method. Use \"status\" or \"team\"."]

getGroupedTasks(q) ==
    /\ res' = IF q.by = "status"
              THEN Response("getGroupedTasks", q, 200,
                            [groups |-> GroupsByStatus(tasks)], {})
              ELSE IF q.by = "team"
              THEN Response("getGroupedTasks", q, 200,
                            [groups |-> GroupsByTeam(tasks, teams)], {})
              ELSE Response("getGroupedTasks", q, 400, InvalidGrouping, {})
    /\ UNCHANGED <<tasks, users, teams, now, req, calls>>

----------------------------------------------------------------------------
(* Specification of the read side: any task list and team list, then any   *)
(* sequence of read requests                                               *)

\* task lists of the read side: tasks created by createTask (distinct ids),
\* possibly updated so that userIds is no array
ListTasks ==
    {Task("t", "a", s, l, c, 0) :
        s \in {"To Do", "Done"},
        l \in {<<"u1">>, <<"u2">>, <<"u2", "u1">>, NotArray},
        c \in UserIds}
    \cup {Task("t", "a", Null, <<"u1">>, "u1", 0)}

IdOf(i) == <<"t1", "t2", "t3", "t4">>[i]

TaskLists ==
    UNION {{[i \in 1..n |-> [f[i] EXCEPT !.taskId = IdOf(i)]] :
              f \in [1..n -> ListTasks]} : n \in 0..MaxListLen}

\* the team store: two teams, the second one is the team the requests name
TheTeams == <<[teamId |-> "z0", members |-> {"u1"}],
              [teamId |-> "z1", members |-> {"u2"}]>>

\* before any read request
NoQuery == [status |-> Undefined, teamId |-> Undefined, userId |-> Undefined,
            union |-> Undefined, by |-> Undefined]

FilterInit ==
    /\ tasks \in TaskLists
    /\ teams = TheTeams
    /\ users = <<>>
    /\ now = 0
    /\ req \in Queries
    /\ res = NoResponse
    /\ calls = 0

FilterNext ==
    \/ getTasks(req)
    \/ getCalendarData(req)
    \/ getTaskSummary(req)
    \/ getGroupedTasks(req)

FilterSpec == FilterInit /\ [][FilterNext]_vars

----------------------------------------------------------------------------
(* Write handlers of the task controller *)

\* new Date().toISOString(): the time of the call, the clock having stood
\* still or advanced since the last reading
Ticks == {t \in {now, now + 1} : t <= MaxClock}

\* uuidv4(): an identifier no stored task has
FreshIds == TaskIds \ {tasks[i].taskId : i \in 1..Len(tasks)}

\* position of the first task with this id, 0 if none:
\* tasks.findIndex((t) => t.taskId === taskId), tasks.find(...)
TaskIndex(ts, taskId) ==
    FirstOf({k \in 1..Len(ts) : ts[k].taskId = taskId})

\* findTaskById(taskId) of the task store: the first stored task with this id
findTaskById(taskId) == TaskIndex(tasks, taskId)

TaskNotFound == [error |-> "Task not found"]

\* req.body of createTask
CreateBody(title, status, userIds, userId) ==
    [title |-> title, status |-> status, userIds |-> userIds, userId |-> userId]

CreateBodies ==
    {CreateBody("a", Undefined, <<>>, "u1"),
     CreateBody("a", "Done", <<"u1", "u1">>, "u1"),
     CreateBody(Undefined, "Done", <<>>, "u1"),
     CreateBody("a", Undefined, <<>>, Undefined),
     CreateBody("a", Undefined, NotArray, "u1")}

createTask(b) ==
    LET status == IF b.status = Undefined THEN "To Do" ELSE b.status
    IN
    IF ~Truthy(b.title)
    THEN /\ res' = Response("createTask", b, 400,
                            [error |-> "Missing required title"], {})
         /\ UNCHANGED <<tasks, users, teams, now, req>>
    ELSE IF ~Truthy(b.userId)
    THEN /\ res' = Response("createTask", b, 400,
                            [error |-> "Missing userId"], {})
         /\ UNCHANGED <<tasks, users, teams, now, req>>
    ELSE IF ~IsArray(b.userIds)
    THEN /\ res' = Response("createTask", b, 400,
                            [error |-> "'userIds' must be an array"], {})
         /\ UNCHANGED <<tasks, users, teams, now, req>>
    ELSE /\ Len(tasks) < MaxTasks
         /\ \E t \in Ticks, id \in FreshIds :
               LET newTask == Task(id, b.title, status, b.userIds, b.userId, t)
               IN  /\ now' = t
                   /\ tasks' = Append(tasks, newTask)
                   /\ res' = Response("createTask", b, 201,
                                      [task |-> newTask], {"tasks"})
         /\ UNCHANGED <<users, teams, req>>

\* {...task, ...updatedData, updatedAt: at}
Merge(task, updatedData, at) ==
    [f \in DOMAIN task \cup DOMAIN updatedData \cup {"updatedAt"} |->
        IF f = "updatedAt" THEN at
        ELSE IF f \in DOMAIN updatedData THEN updatedData[f]
        ELSE task[f]]

\* req.body of updateTask: any JSON object
UpdateBodies ==
    {[taskId |-> "t1", creator |-> "u2"],
     [userIds |-> <<"u2", "u2">>],
     [userIds |-> NotArray, updatedAt |-> 0]}

\* req.params.taskId: any of the ids, stored or not (an id no stored task
\* has is answered 404)
TaskIdParams == TaskIds

updateTask(taskId, updatedData) ==
    LET taskIndex == TaskIndex(tasks, taskId)
    IN
    IF taskIndex = 0
    THEN /\ res' = Response("updateTask", [taskId |-> taskId, body |-> updatedData],
                            404, TaskNotFound, {})
         /\ UNCHANGED <<tasks, users, teams, now, req>>
    ELSE \E t \in Ticks :
            /\ now' = t
            /\ tasks' = [tasks EXCEPT ![taskIndex] = Merge(@, updatedData, t)]
            /\ res' = Response("updateTask",
                               [taskId |-> taskId, body |-> updatedData], 200,
                               [task |-> tasks'[taskIndex]], {"tasks"})
            /\ UNCHANGED <<users, teams, req>>

\* if (!task.userIds.includes(userId)) task.userIds.push(userId)
PushIfAbsent(userIds, userId) ==
    IF \E k \in 1..Len(userIds) : userIds[k] = userId THEN userIds
    ELSE Append(userIds, userId)

assignTask(taskId, userId) ==
    LET i == TaskIndex(tasks, taskId)
        args == [taskId |-> taskId, userId |-> userId]
    IN
    IF i = 0
    THEN /\ res' = Response("assignTask", args, 404, TaskNotFound, {})
         /\ UNCHANGED <<tasks, users, teams, now, req>>
    ELSE IF ~IsArray(tasks[i].userIds)
    THEN \* task.userIds is null: includes throws a TypeError, nothing is saved
         /\ res' = Response("assignTask", args, 500,
                            [error |-> "TypeError"], {})
         /\ UNCHANGED <<tasks, users, teams, now, req>>
    ELSE \E t \in Ticks :
            /\ now' = t
            /\ tasks' = [tasks EXCEPT ![i] =
                            [@ EXCEPT !.userIds = PushIfAbsent(@, userId),
                                      !.updatedAt = t]]
            /\ res' = Response("assignTask", args, 200,
                               [task |-> tasks'[i]], {"tasks"})
            /\ UNCHANGED <<users, teams, req>>

\* req.body.newStatus of changeStatus: a status of the enumeration and one
\* outside it
StatusBodies == {"In Progress", "Blocked"}

\* saveTasks(loadTasks().map((t) => (t.taskId === taskId ? task : t)))
ReplaceById(ts, taskId, task) ==
    [k \in 1..Len(ts) |-> IF ts[k].taskId = taskId THEN task ELSE ts[k]]

\* (mutant) the status is overwritten, updatedAt is not refreshed
MutRestatus(task, newStatus, at) == [task EXCEPT !.status = newStatus]

\* task.status = newStatus; task.updatedAt = new Date().toISOString()
Restatus(task, newStatus, at) ==
    [task EXCEPT !.status = newStatus, !.updatedAt = at]

changeStatus(taskId, newStatus) ==
    LET i == findTaskById(taskId)
        args == [taskId |-> taskId, newStatus |-> newStatus]
    IN
    IF i = 0
    THEN /\ res' = Response("changeStatus", args, 404, TaskNotFound, {})
         /\ UNCHANGED <<tasks, users, teams, now, req>>
    ELSE \E t \in Ticks :
            LET task == Restatus(tasks[i], newStatus, t)
            IN  /\ now' = t
                /\ tasks' = ReplaceById(tasks, taskId, task)
                /\ res' = Response("changeStatus", args, 200,
                                   [task |-> task], {"tasks"})
                /\ UNCHANGED <<users, teams, req>>

\* tasks.splice(taskIndex)
Splice(ts, i) == [k \in 1..(Len(ts) - 1) |-> IF k < i THEN ts[k] ELSE ts[k + 1]]

\* (mutant) only the first occurrence is removed, as by
\* splice(indexOf(taskId))
MutWithout(s, taskId) ==
    LET first == FirstOf({k \in 1..Len(s) : s[k] = taskId})
    IN  IF first = 0 THEN s
        ELSE [k \in 1..(Len(s) - 1) |-> IF k < first THEN s[k] ELSE s[k + 1]]

\* user.tasks.filter((tid) => tid !== taskId)
Without(s, taskId) == SelectSeq(s, LAMBDA tid : tid # taskId)

\* the cascade of deleteTask on one user record
Unlink(user, taskId) ==
    [user EXCEPT !.taskId = IF @ = taskId THEN Null ELSE @,
                 !.tasks = Without(@, taskId)]

\* (mutant) the user store saved after every delete, changed or not
MutDeleteTask(taskId) ==
    LET taskIndex == TaskIndex(tasks, taskId)
        args == [taskId |-> taskId]
    IN
    IF taskIndex = 0
    THEN /\ res' = Response("deleteTask", args, 404, TaskNotFound, {})
         /\ UNCHANGED <<tasks, users, teams, now, req>>
    ELSE /\ tasks' = Splice(tasks, taskIndex)
         /\ users' = [k \in 1..Len(users) |-> Unlink(users[k], taskId)]
         /\ res' = Response("deleteTask", args, 200,
                            [task |-> tasks[taskIndex]], {"tasks", "users"})
         /\ UNCHANGED <<teams, now, req>>

deleteTask(taskId) ==
    LET taskIndex == TaskIndex(tasks, taskId)
        args == [taskId |-> taskId]
        cleaned == [k \in 1..Len(users) |-> Unlink(users[k], taskId)]
        changed == \E k \in 1..Len(users) :
                      \/ users[k].taskId = taskId
                      \/ Len(cleaned[k].tasks) # Len(users[k].tasks)
    IN
    IF taskIndex = 0
    THEN /\ res' = Response("deleteTask", args, 404, TaskNotFound, {})
         /\ UNCHANGED <<tasks, users, teams, now, req>>
    ELSE /\ tasks' = Splice(tasks, taskIndex)
         /\ users' = IF changed THEN cleaned ELSE users
         /\ res' = Response("deleteTask", args, 200,
                            [task |-> tasks[taskIndex]],
                            IF changed THEN {"tasks", "users"} ELSE {"tasks"})
         /\ UNCHANGED <<teams, now, req>>

\* the cascade of deleteAllTasks on one user record
UnlinkAll(user) ==
    [user EXCEPT !.taskId = IF Truthy(@) THEN Null ELSE @,
                 !.tasks = IF Len(@) > 0 THEN <<>> ELSE @]

deleteAllTasks ==
    LET args == [a |-> Undefined]
        changed == \E k \in 1..Len(users) :
                      Truthy(users[k].taskId) \/ Len(users[k].tasks) > 0
    IN
    IF Len(tasks) = 0
    THEN /\ res' = Response("deleteAllTasks", args, 200,
                            [message |-> "No tasks to delete"], {})
         /\ UNCHANGED <<tasks, users, teams, now, req>>
    ELSE /\ tasks' = <<>>
         /\ users' = IF changed
                     THEN [k \in 1..Len(users) |-> UnlinkAll(users[k])]
                     ELSE users
         /\ res' = Response("deleteAllTasks", args, 200,
                            [message |-> "All tasks deleted"],
                            IF changed THEN {"tasks", "users"} ELSE {"tasks"})
         /\ UNCHANGED <<teams, now, req>>

----------------------------------------------------------------------------
(* Specification of the write side: from an empty task store, any sequence *)
(* of write requests                                                       *)

\* the user store is written by the user controller; its records refer to
\* tasks through taskId (one task) and tasks (a list of task ids)
TheUsers == <<[userId |-> "u1", taskId |-> "t1", tasks |-> <<"t2">>],
              [userId |-> "u2", taskId |-> Null, tasks |-> <<"t1", "t2", "t1">>]>>

Init ==
    /\ tasks = <<>>
    /\ users = TheUsers
    /\ teams = TheTeams
    /\ now = 0
    /\ req = NoQuery
    /\ res = NoResponse
    /\ calls = 0

\* one more write request is served
Serve(handler) == calls < MaxCalls /\ calls' = calls + 1 /\ handler

Next ==
    \/ \E b \in CreateBodies : Serve(createTask(b))
    \/ \E id \in TaskIdParams, b \in UpdateBodies : Serve(updateTask(id, b))
    \/ \E id \in TaskIdParams, u \in UserIds : Serve(assignTask(id, u))
    \/ \E id \in TaskIdParams, s \in StatusBodies : Serve(changeStatus(id, s))
    \/ \E id \in TaskIdParams : Serve(deleteTask(id))
    \/ Serve(deleteAllTasks)

Spec == Init /\ [][Next]_vars

----------------------------------------------------------------------------
(* The filter contract, stated on sets of tasks *)

Supplied(v) == v # Undefined /\ v # ""

\* the user ids assigned to a task
Assigned(t) == IF IsArray(t.userIds) THEN Range(t.userIds) ELSE {}

\* the members of the team a team id resolves to
Resolves(teamId) == \E k \in 1..Len(teams) : teams[k].teamId = teamId
MembersOf(teamId) ==
    (CHOOSE tm \in Range(teams) : tm.teamId = teamId).members

AnySupplied(q) == Supplied(q.status) \/ Supplied(q.teamId) \/ Supplied(q.userId)
UnionMode(q) == q.union \in {UnionBool, UnionStr}

\* every supplied filter holds of t, userIds alone deciding
SatisfiesAll(t, q) ==
    /\ Supplied(q.status) => t.status = q.status
    /\ Supplied(q.teamId) => Assigned(t) \cap MembersOf(q.teamId) # {}
    /\ Supplied(q.userId) => q.userId \in Assigned(t)

\* some supplied filter holds of t, the creator counting as well
SatisfiesSome(t, q) ==
    \/ Supplied(q.status) /\ t.status = q.status
    \/ Supplied(q.teamId) /\ (Assigned(t) \cap MembersOf(q.teamId) # {}
                                \/ t.creator \in MembersOf(q.teamId))
    \/ Supplied(q.userId) /\ (q.userId \in Assigned(t) \/ t.creator = q.userId)

\* the response is a 200 listing each stored task satisfying P once, the
\* others not at all, and nothing else
ListsExactly(P(_)) ==
    /\ res.code = 200
    /\ Range(res.body.tasks) \subseteq Range(tasks)
    /\ \A i \in 1..Len(tasks) :
          Count(res.body.tasks, tasks[i]) = IF P(tasks[i]) THEN 1 ELSE 0

\* C1: in intersection mode, with a filter supplied and the team resolving,
\* getTasks returns exactly the tasks satisfying every supplied filter on
\* status and userIds; the creator is never consulted.
C1_IntersectionExact ==
    (/\ res.op = "getTasks"
     /\ ~UnionMode(res.args)
     /\ AnySupplied(res.args)
     /\ Supplied(res.args.teamId) => Resolves(res.args.teamId))
    => ListsExactly(LAMBDA t : SatisfiesAll(t, res.args))

\* C1 witness: an intersection request by userId and teamId that returns a
\* task and leaves out a task created by that user but not assigned to them
C1_Witness ==
    /\ res.op = "getTasks" /\ res.code = 200
    /\ ~UnionMode(res.args)
    /\ Supplied(res.args.userId) /\ Supplied(res.args.teamId)
    /\ res.body.tasks # <<>>
    /\ \E i \in 1..Len(tasks) :
          /\ tasks[i].creator = res.args.userId
          /\ res.args.userId \notin Assigned(tasks[i])
          /\ tasks[i] \notin Range(res.body.tasks)

\* C2: in union mode, with a filter supplied and the team resolving, getTasks
\* returns each task satisfying at least one supplied filter (creator
\* included for teamId and userId) exactly once and no other task; a task
\* whose creator alone is in the team is returned for teamId in union mode
\* and left out in intersection mode.
C2_UnionExact ==
    /\ (/\ res.op = "getTasks"
        /\ UnionMode(res.args)
        /\ AnySupplied(res.args)
        /\ Supplied(res.args.teamId) => Resolves(res.args.teamId))
       => ListsExactly(LAMBDA t : SatisfiesSome(t, res.args))
    /\ (/\ res.op = "getTasks"
        /\ Supplied(res.args.teamId) /\ Resolves(res.args.teamId)
        /\ ~Supplied(res.args.status) /\ ~Supplied(res.args.userId))
       => \A i \in 1..Len(tasks) :
             (/\ tasks[i].creator \in MembersOf(res.args.teamId)
              /\ Assigned(tasks[i]) \cap MembersOf(res.args.teamId) = {})
             => (tasks[i] \in Range(res.body.tasks) <=> UnionMode(res.args))

\* C2 witness: a union request with all three filters returning a task that
\* matches two of them, and a task matched through its creator alone
C2_Witness ==
    /\ res.op = "getTasks" /\ res.code = 200
    /\ UnionMode(res.args)
    /\ Supplied(res.args.status) /\ Supplied(res.args.teamId)
    /\ Supplied(res.args.userId)
    /\ \E i, j \in 1..Len(tasks) :
          /\ tasks[i].status = res.args.status
          /\ res.args.userId \in Assigned(tasks[i])
          /\ Count(res.body.tasks, tasks[i]) = 1
          /\ tasks[j].status # res.args.status
          /\ tasks[j].creator \in MembersOf(res.args.teamId)
          /\ Assigned(tasks[j]) \cap MembersOf(res.args.teamId) = {}
          /\ res.args.userId \notin Assigned(tasks[j])
          /\ tasks[j] \in Range(res.body.tasks)

\* C3: a supplied teamId that no team has makes getTasks, getCalendarData
\* and getTaskSummary answer 404 "Team not found" with no task list, in
\* both modes and whatever the other filters select.
C3_TeamNotFound404 ==
    (/\ res.op \in {"getTasks", "getCalendarData", "getTaskSummary"}
     /\ Supplied(res.args.teamId)
     /\ ~Resolves(res.args.teamId))
    => (res.code = 404 /\ res.body = NotFoundTeam)

\* C3 witness: intersection mode, an unknown team and a status no stored
\* task has: the status filter has already excluded every task
C3_Witness ==
    /\ res.op = "getTasks" /\ res.code = 404
    /\ ~UnionMode(res.args)
    /\ ~Resolves(res.args.teamId)
    /\ Supplied(res.args.status)
    /\ tasks # <<>>
    /\ \A i \in 1..Len(tasks) : tasks[i].status # res.args.status

\* the stored tasks (positions) a query selects under the filter contract
Selected(q) ==
    {i \in 1..Len(tasks) :
        IF ~AnySupplied(q) THEN TRUE
        ELSE IF UnionMode(q) THEN SatisfiesSome(tasks[i], q)
        ELSE SatisfiesAll(tasks[i], q)}

\* C4 as claimed: getTaskSummary counts the tasks the filter engine selects
\* for the request's status, teamId, userId and union.
C4_SummaryUsesAllParams ==
    (res.op = "getTaskSummary" /\ res.code = 200)
    => res.body.total = Cardinality(Selected(res.args))

\* the request's query without its status
WithoutStatus(q) == [q EXCEPT !.status = Undefined]

\* C4 amended: getTaskSummary reads teamId, userId and union only; a status
\* parameter is ignored.  total counts the tasks selected for those three,
\* completed those of them with status "Done", remaining the difference.
C4_SummaryIgnoresStatus ==
    (/\ res.op = "getTaskSummary"
     /\ Supplied(res.args.teamId) => Resolves(res.args.teamId))
    => LET sel == Selected(WithoutStatus(res.args))
           done == {i \in sel : tasks[i].status = "Done"}
       IN  /\ res.code = 200
           /\ res.body.total = Cardinality(sel)
           /\ res.body.completed = Cardinality(done)
           /\ res.body.remaining = Cardinality(sel) - Cardinality(done)

\* C4 witness: a summary request carrying status=Done whose total counts a
\* task that is not Done
C4_Witness ==
    /\ res.op = "getTaskSummary" /\ res.code = 200
    /\ res.args.status = "Done"
    /\ Supplied(res.args.userId)
    /\ res.body.completed > 0
    /\ res.body.remaining > 0

----------------------------------------------------------------------------
(* The write contract *)

\* C5: after a successful deleteTask(id) no user record has taskId = id and
\* no user's tasks list contains id.
C5_CascadeComplete ==
    (res.op = "deleteTask" /\ res.code = 200)
    => \A k \in 1..Len(users) :
          /\ users[k].taskId # res.args.taskId
          /\ res.args.taskId \notin Range(users[k].tasks)

\* C5 witness: a deleteTask whose cascade rewrote the user store, a user
\* having held the id twice in tasks and keeping a reference to another task
C5_Witness ==
    /\ res.op = "deleteTask" /\ res.code = 200
    /\ "users" \in res.saved
    /\ \E k \in 1..Len(users) :
          /\ Count(TheUsers[k].tasks, res.args.taskId) = 2
          /\ users[k].tasks # <<>>

\* C6: after every call of deleteAllTasks the task store is empty and every
\* user has taskId = null and tasks = [], also when the task store was
\* already empty.
C6_DeleteAllClearsUsers ==
    res.op = "deleteAllTasks"
    => /\ tasks = <<>>
       /\ \A k \in 1..Len(users) :
             users[k].taskId = Null /\ users[k].tasks = <<>>

\* C7: no stored task's userIds contains a duplicate entry.
C7_NoDuplicateUserIds ==
    \A i \in 1..Len(tasks) :
        IsArray(tasks[i].userIds)
        => \A u \in Range(tasks[i].userIds) : Count(tasks[i].userIds, u) = 1

\* C8: updateTask, assignTask and changeStatus leave the taskId and the
\* creator of every stored task as they were.
C8_IdAndCreatorImmutable ==
    [][res'.op \in {"updateTask", "assignTask", "changeStatus"}
       => /\ Len(tasks') = Len(tasks)
          /\ \A i \in 1..Len(tasks) :
                /\ tasks'[i].taskId = tasks[i].taskId
                /\ tasks'[i].creator = tasks[i].creator]_vars

\* C9: a second assignTask(taskId, u) right after a first one leaves userIds
\* as the first call left it, with u in it exactly once.
C9_AssignIdempotent ==
    [][(/\ res.op = "assignTask" /\ res.code = 200
        /\ res'.op = "assignTask" /\ res'.code = 200
        /\ res'.args = res.args)
       => LET i == TaskIndex(tasks, res.args.taskId)
          IN  /\ tasks'[i].userIds = tasks[i].userIds
              /\ Count(tasks'[i].userIds, res.args.userId) = 1]_vars

\* the fields of a task other than status and updatedAt
OtherFields(t) == [f \in DOMAIN t \ {"status", "updatedAt"} |-> t[f]]

\* C10 as claimed: after a successful changeStatus(id, S) the task has
\* status S, an updatedAt strictly greater than before, and its other
\* fields as before.
C10_StatusChangeStrictlyLater ==
    [][(res'.op = "changeStatus" /\ res'.code = 200)
       => LET i == TaskIndex(tasks, res'.args.taskId)
          IN  /\ tasks'[i].status = res'.args.newStatus
              /\ tasks'[i].updatedAt > tasks[i].updatedAt
              /\ OtherFields(tasks'[i]) = OtherFields(tasks[i])]_vars

\* C10 amended: after a successful changeStatus(id, S) the first stored task
\* with that id has status S, updatedAt equal to the time of the call, which
\* is not earlier than its updatedAt before, and its other fields as before.
C10_StatusChangeStamped ==
    [][(res'.op = "changeStatus" /\ res'.code = 200)
       => LET i == TaskIndex(tasks, res'.args.taskId)
          IN  /\ i > 0
              /\ TaskIndex(tasks', res'.args.taskId) = i
              /\ tasks'[i].status = res'.args.newStatus
              /\ tasks'[i].updatedAt = now'
              /\ tasks'[i].updatedAt >= tasks[i].updatedAt
              /\ OtherFields(tasks'[i]) = OtherFields(tasks[i])]_vars

\* C10 witness: a status outside the enumeration stored by changeStatus at
\* a time later than the task's creation
C10_Witness ==
    /\ res.op = "changeStatus" /\ res.code = 200
    /\ res.args.newStatus \notin EnumStatuses
    /\ LET i == TaskIndex(tasks, res.args.taskId)
       IN  /\ i > 0
           /\ tasks[i].status = res.args.newStatus
           /\ tasks[i].updatedAt = now
           /\ tasks[i].updatedAt > tasks[i].createdAt

----------------------------------------------------------------------------
(* The dashboard contract *)

\* the stored tasks (positions) assigned to user u or created by u
AssignedOrCreated(u) ==
    {i \in 1..Len(tasks) : u \in Assigned(tasks[i]) \/ tasks[i].creator = u}

\* only userId is supplied and union is absent
OnlyUserId(q) ==
    /\ Supplied(q.userId) /\ ~Supplied(q.teamId) /\ q.union = Undefined

\* every stored task has the array userIds createTask demands
ArraysOnly == \A i \in 1..Len(tasks) : IsArray(tasks[i].userIds)

\* C11: with only userId = u supplied and union absent, getCalendarData
\* lists and getTaskSummary counts the tasks assigned to u or created by u,
\* so every task whose creator is u, also one not assigned to u.
C11_UserIdSelectsCreated ==
    /\ (res.op = "getCalendarData" /\ OnlyUserId(res.args) /\ ArraysOnly)
       => /\ res.code = 200
          /\ \A i \in AssignedOrCreated(res.args.userId) :
                \E k \in 1..Len(res.body.calendar) :
                    res.body.calendar[k].taskId = tasks[i].taskId
    /\ (res.op = "getTaskSummary" /\ OnlyUserId(res.args) /\ ArraysOnly)
       => /\ res.code = 200
          /\ res.body.total = Cardinality(AssignedOrCreated(res.args.userId))

\* the keys of the groups of a getGroupedTasks response
GroupKeys == DOMAIN res.body.groups

\* C12: by = "status" partitions the whole task store: each stored task is
\* in exactly one group, the one keyed by its status or by "Unknown" when
\* its status is missing or falsy; no group is empty and the groups hold
\* nothing but stored tasks.  A by other than "status" or "team" is answered
\* 400 with no groups.
C12_GroupedByStatusPartitions ==
    /\ (res.op = "getGroupedTasks" /\ res.args.by = "status")
       => /\ res.code = 200
          /\ \A i \in 1..Len(tasks) :
                LET key == IF tasks[i].status \in {Undefined, Null, ""}
                           THEN "Unknown" ELSE tasks[i].status
                IN  /\ key \in GroupKeys
                    /\ Count(res.body.groups[key], tasks[i]) = 1
                    /\ \A other \in GroupKeys \ {key} :
                          Count(res.body.groups[other], tasks[i]) = 0
          /\ \A key \in GroupKeys :
                /\ res.body.groups[key] # <<>>
                /\ Range(res.body.groups[key]) \subseteq Range(tasks)
    /\ (res.op = "getGroupedTasks" /\ res.args.by \notin {"status", "team"})
       => (res.code = 400 /\ res.body = InvalidGrouping)

\* C12 witness: a grouping by status with two groups, one of them "Unknown"
C12_Witness ==
    /\ res.op = "getGroupedTasks" /\ res.code = 200
    /\ res.args.by = "status"
    /\ "Unknown" \in GroupKeys
    /\ Cardinality(GroupKeys) = 2
    /\ \E i \in 1..Len(tasks) : tasks[i].status = Null

----------------------------------------------------------------------------
(* Failures and deletions *)

\* some stored task has this id
Stored(taskId) == \E i \in 1..Len(tasks) : tasks[i].taskId = taskId

\* some user record refers to this task id
Referenced(taskId) ==
    \E k \in 1..Len(users) :
        users[k].taskId = taskId \/ taskId \in Range(users[k].tasks)

\* C13: updateTask, assignTask, changeStatus and deleteTask called with an
\* id no stored task has answer 404 and write neither store; a successful
\* deleteTask writes the user store only if some user referred to the id.
C13_NotFoundWritesNothing ==
    [][/\ (/\ res'.op \in {"updateTask", "assignTask", "changeStatus", "deleteTask"}
           /\ ~Stored(res'.args.taskId))
          => /\ res'.code = 404 /\ res'.body = TaskNotFound
             /\ res'.saved = {}
             /\ tasks' = tasks /\ users' = users
       /\ (res'.op = "deleteTask" /\ res'.code = 200)
          => /\ "users" \in res'.saved => Referenced(res'.args.taskId)
             /\ "users" \notin res'.saved => users' = users]_vars

\* C13 witness: a deleteTask of a stored task no user refers to, answered
\* 200 without the user store being saved
C13_Witness ==
    /\ res.op = "deleteTask" /\ res.code = 200
    /\ res.saved = {"tasks"}
    /\ users = TheUsers

\* the tasks of the last getTasks response for query q, had it been asked now
Answer(q) == Pick(tasks, filterTasks(tasks, teams, q).idx)

\* C14: with a filter supplied and the team resolving, what getTasks returns
\* in intersection mode is among what it returns in union mode for the same
\* status, teamId and userId; both hold stored tasks only, and the request
\* leaves the task list as it was.
C14_IntersectionWithinUnion ==
    [][(/\ res'.op = "getTasks"
        /\ AnySupplied(res'.args)
        /\ Supplied(res'.args.teamId) => Resolves(res'.args.teamId))
       => /\ res'.code = 200
          /\ tasks' = tasks
          /\ Range(res'.body.tasks) \subseteq Range(tasks)
          /\ UnionMode(res'.args)
             => Range(Answer([res'.args EXCEPT !.union = Undefined]))
                   \subseteq Range(res'.body.tasks)
          /\ ~UnionMode(res'.args)
             => /\ Range(res'.body.tasks)
                      \subseteq Range(Answer([res'.args EXCEPT !.union = UnionBool]))
                /\ Range(res'.body.tasks)
                      \subseteq Range(Answer([res'.args EXCEPT !.union = UnionStr]))]_vars

\* C14 witness: an intersection answer that is not empty while the union
\* answer to the same filters holds a task more
C14_Witness ==
    /\ res.op = "getTasks" /\ res.code = 200
    /\ ~UnionMode(res.args)
    /\ Supplied(res.args.userId) /\ Supplied(res.args.teamId)
    /\ res.body.tasks # <<>>
    /\ Range(Answer([res.args EXCEPT !.union = UnionStr]))
          \ Range(res.body.tasks) # {}

\* C15: a successful deleteTask(id) leaves no stored task with that id,
\* removes exactly one task and leaves every other task as it was.
C15_DeleteRemovesTheId ==
    [][(res'.op = "deleteTask" /\ res'.code = 200)
       => /\ \A i \in 1..Len(tasks') : tasks'[i].taskId # res'.args.taskId
          /\ Len(tasks') = Len(tasks) - 1
          /\ \E i \in 1..Len(tasks) :
                tasks' = [k \in 1..(Len(tasks) - 1) |->
                             IF k < i THEN tasks[k] ELSE tasks[k + 1]]]_vars

====
